---- MODULE Spec2Model ----
(***************************************************************************)
(* State-machine model of the cache index contract IndexBase               *)
(* (src/en/docs/cache/index_base.py).                                      *)
(*                                                                         *)
(* Registry objects share backing storage, one index per location.  The    *)
(* public operations has, known, add, get_index_dir, set_index_dir and the *)
(* constructor are translated from the source.  The three abstract         *)
(* primitives load, save and _initialize_index have no body in the source; *)
(* they are modelled from the written contract of the backend.             *)
(*                                                                         *)
(* add is a load-modify-save cycle, so it is split where it touches the    *)
(* shared storage: add_load (lines 39-41) and add_save (line 42).  Spec    *)
(* allows the steps of different objects to interleave; SeqSpec allows one *)
(* call in progress at a time.                                             *)
(***************************************************************************)
EXTENDS Integers, Sequences, FiniteSets, TLC

\* ---------------------------------------------------------------- bounds
MaxAdds == 2        \* add calls that may reach their save

\* ------------------------------------------------------------ value sets
Objs == {"r1", "r2"}                 \* registry objects (one caller each)
Ids == {"file1", "file2"}            \* identifiers passed by callers
None == "None"                       \* default of index_dir (line 15)
Dirs == {None, "d1"}                 \* location descriptors
Unset == "unset"                     \* attribute index_dir not yet assigned
NoArg == "-"                         \* no identifier argument
NoErr == "none"                      \* no exception
Errors == {"unavailable", "corrupt", "unwritable"}

VARIABLES
    storage,    \* storage[d]: the index persisted at location d
    created,    \* created[d]: backing storage of d exists in loadable state
    index_dir,  \* index_dir[o]: attribute self.index_dir of object o
    pc,         \* pc[o]: position of the call in progress on o
    index,      \* index[o]: local variable `index` of add
    arg,        \* arg[o]: parameter `identifier` of the add in progress
    calls,      \* calls[o]: primitives invoked so far by the current call
    added,      \* added[d]: identifiers of the completed adds on d, in order
    configured, \* configured[o]: argument of the latest set_index_dir on o
    made,       \* made[d]: the entries that adds have saved to d
    last        \* the most recently finished public call and its outcome

vars == <<storage, created, index_dir, pc, index, arg, calls, added,
          configured, made, last>>

\* ------------------------------------------------------- data and helpers
CacheEntry(identifier, timestamp) ==
    [identifier |-> identifier, timestamp |-> timestamp]

\* datetime.datetime.now(): a reading t of the local wall clock, which may
\* be set back between two readings
current_time(t) == t

\* two instants: enough for two readings to come in either order or agree
Readings == {0, 1}

NoCalls == [load |-> 0, save |-> 0, init |-> 0]

\* --- variants of the code below with a plausible slip, used to show that
\* --- the properties depend on the code
appended_nothing(idx, entry) == idx

appended_unless_present(idx, entry) ==
    IF \E i \in DOMAIN idx : idx[i].identifier = entry.identifier
        THEN idx ELSE Append(idx, entry)

appended_in_front(idx, entry) == <<entry>> \o idx

appended_replacing(idx, entry) == <<entry>>

appended_twice(idx, entry) == Append(Append(idx, entry), entry)

any_identifier_first(idx, identifier) ==
    idx # <<>> /\ idx[1].identifier = identifier

identifiers_but_last(idx) ==
    {idx[i].identifier : i \in (DOMAIN idx) \ {Len(idx)}}

\* any(entry.identifier == identifier for entry in index)
any_identifier(idx, identifier) ==
    \E i \in DOMAIN idx : idx[i].identifier = identifier

\* {entry.identifier for entry in index}
identifiers(idx) ==
    {idx[i].identifier : i \in DOMAIN idx}

\* index.append(entry)
appended(idx, entry) ==
    Append(idx, entry)

\* the entry an add has appended to the index it is about to save
newest(idx) ==
    IF idx = <<>> THEN {} ELSE {idx[Len(idx)]}

\* record of a finished public call
Call(op, o, d, a, h, k, g, raised, exc, c) ==
    [op |-> op, obj |-> o, dir |-> d, arg |-> a,
     has |-> h, known |-> k, got |-> g,
     raised |-> raised, exc |-> exc,
     nload |-> c.load, nsave |-> c.save, ninit |-> c.init]

\* ------------------------------------------------- the abstract primitives
\* load(): the full sequence of entries at the location
load(d) == storage[d]

\* the error load() raises: storage that was never initialised is
\* unavailable; otherwise the injected fault f decides
load_error(d, f) ==
    IF ~created[d] THEN "unavailable" ELSE f

\* save(index): replaces the prior contents of the location
save(d, idx) == [storage EXCEPT ![d] = idx]

\* _initialize_index(): creates an empty index when none exists
initialized(d) ==
    IF created[d] THEN storage ELSE [storage EXCEPT ![d] = <<>>]

Init ==
    /\ storage = [d \in Dirs |-> <<>>]
    /\ created = [d \in Dirs |-> FALSE]
    /\ index_dir = [o \in Objs |-> Unset]
    /\ pc = [o \in Objs |-> "new"]
    /\ index = [o \in Objs |-> <<>>]
    /\ arg = [o \in Objs |-> NoArg]
    /\ calls = [o \in Objs |-> NoCalls]
    /\ added = [d \in Dirs |-> <<>>]
    /\ configured = [o \in Objs |-> Unset]
    /\ made = [d \in Dirs |-> {}]
    /\ last = Call("none", "none", Unset, NoArg, FALSE, {}, Unset, NoErr, NoErr, NoCalls)

\* ---------------------------------------------------------------- actions
\* adds in progress (loaded, not yet saved)
InFlight == {p \in Objs : pc[p] = "add_loaded"}

RECURSIVE SumLen(_, _)
SumLen(f, S) ==
    IF S = {} THEN 0
    ELSE LET d == CHOOSE e \in S : TRUE IN Len(f[d]) + SumLen(f, S \ {d})

\* adds completed or in progress, over all locations
AddsBegun == SumLen(added, Dirs) + Cardinality(InFlight)

\* variant: the attribute is assigned only after _initialize_index succeeded
SetIndexDir_init_first(op, o, d, f) ==
    /\ configured' = [configured EXCEPT ![o] = d]
    /\ LET c == [calls[o] EXCEPT !.init = @ + 1]
       IN  /\ IF f = NoErr
                 THEN /\ index_dir' = [index_dir EXCEPT ![o] = d]
                      /\ storage' = initialized(d)
                      /\ created' = [created EXCEPT ![d] = TRUE]
                 ELSE UNCHANGED <<index_dir, storage, created>>
           /\ last' = Call(op, o, d, NoArg, FALSE, {}, Unset, f, f, c)
    /\ UNCHANGED <<index, arg, calls, added, made>>

\* variant: _initialize_index runs before the assignment, on the location
\* the attribute named until now
SetIndexDir_init_old(op, o, d, f) ==
    /\ index_dir' = [index_dir EXCEPT ![o] = d]
    /\ configured' = [configured EXCEPT ![o] = d]
    /\ LET loc == index_dir[o]
           c == [calls[o] EXCEPT !.init = @ + 1]
       IN  /\ IF f = NoErr /\ loc \in Dirs
                 THEN /\ storage' = initialized(loc)
                      /\ created' = [created EXCEPT ![loc] = TRUE]
                 ELSE UNCHANGED <<storage, created>>
           /\ last' = Call(op, o, loc, NoArg, FALSE, {}, Unset, f, f, c)
    /\ UNCHANGED <<index, arg, calls, added, made>>

\* variant: the call of _initialize_index is forgotten
SetIndexDir_no_init(op, o, d, f) ==
    /\ index_dir' = [index_dir EXCEPT ![o] = d]
    /\ configured' = [configured EXCEPT ![o] = d]
    /\ last' = Call(op, o, d, NoArg, FALSE, {}, Unset, NoErr, NoErr, calls[o])
    /\ UNCHANGED <<storage, created, index, arg, calls, added, made>>

\* variant: the location is set up by saving an empty index
SetIndexDir_resetting(op, o, d, f) ==
    /\ index_dir' = [index_dir EXCEPT ![o] = d]
    /\ configured' = [configured EXCEPT ![o] = d]
    /\ LET c == [calls[o] EXCEPT !.init = @ + 1]
       IN  /\ IF f = NoErr
                 THEN /\ storage' = save(d, <<>>)
                      /\ created' = [created EXCEPT ![d] = TRUE]
                 ELSE UNCHANGED <<storage, created>>
           /\ last' = Call(op, o, d, NoArg, FALSE, {}, Unset, f, f, c)
    /\ UNCHANGED <<index, arg, calls, added, made>>

\* set_index_dir(index_dir), lines 23-26, on behalf of the call `op`: the
\* attribute is assigned first (line 25), then _initialize_index() runs on
\* the location the attribute now names (line 26)
SetIndexDir(op, o, d, f) ==
    /\ index_dir' = [index_dir EXCEPT ![o] = d]
    /\ configured' = [configured EXCEPT ![o] = d]
    /\ LET loc == index_dir'[o]
           c == [calls[o] EXCEPT !.init = @ + 1]
       IN  /\ IF f = NoErr
                 THEN /\ storage' = initialized(loc)
                      /\ created' = [created EXCEPT ![loc] = TRUE]
                 ELSE UNCHANGED <<storage, created>>
           /\ last' = Call(op, o, loc, NoArg, FALSE, {}, Unset, f, f, c)
    /\ UNCHANGED <<index, arg, calls, added, made>>

\* __init__(index_dir), lines 15-17.  When _initialize_index raises, the
\* constructor raises and the caller holds no object.
IndexBase(o, d, f) ==
    /\ pc[o] = "new"
    /\ SetIndexDir("__init__", o, d, f)
    /\ pc' = [pc EXCEPT ![o] = IF f = NoErr THEN "idle" ELSE "new"]

\* set_index_dir(index_dir), lines 23-26
set_index_dir(o, d, f) ==
    /\ pc[o] = "idle"
    /\ SetIndexDir("set_index_dir", o, d, f)
    /\ UNCHANGED pc

\* get_index_dir(), lines 19-21
get_index_dir(o) ==
    /\ pc[o] = "idle"
    /\ last' = Call("get_index_dir", o, configured[o], NoArg, FALSE, {},
                    index_dir[o], NoErr, NoErr, NoCalls)
    /\ UNCHANGED <<storage, created, index_dir, pc, index, arg, calls,
                   added, made, configured>>

\* variant: has answers from the index the object last held in memory
has_from_memory(o, identifier, f) ==
    /\ pc[o] = "idle"
    /\ last' = Call("has", o, index_dir[o], identifier,
                    any_identifier(index[o], identifier),
                    {}, Unset, NoErr, NoErr, calls[o])
    /\ UNCHANGED <<storage, created, index_dir, pc, index, arg, calls,
                   added, made, configured>>

\* variant: has writes the index it loaded back to storage
has_saving(o, identifier, f) ==
    /\ pc[o] = "idle"
    /\ LET d == index_dir[o]
           err == load_error(d, f)
           c == [calls[o] EXCEPT !.load = @ + 1,
                                 !.save = IF err = NoErr THEN @ + 1 ELSE @]
       IN  /\ last' = Call("has", o, d, identifier,
                           IF err = NoErr THEN any_identifier(load(d), identifier)
                                          ELSE FALSE,
                           {}, Unset, err, err, c)
           /\ storage' = IF err = NoErr THEN save(d, load(d)) ELSE storage
    /\ UNCHANGED <<created, index_dir, pc, index, arg, calls,
                   added, made, configured>>

\* has(identifier), lines 28-31
has(o, identifier, f) ==
    /\ pc[o] = "idle"
    /\ LET d == index_dir[o]
           err == load_error(d, f)
           c == [calls[o] EXCEPT !.load = @ + 1]
       IN  last' = Call("has", o, d, identifier,
                        IF err = NoErr THEN any_identifier(load(d), identifier)
                                       ELSE FALSE,
                        {}, Unset, err, err, c)
    /\ UNCHANGED <<storage, created, index_dir, pc, index, arg, calls,
                   added, made, configured>>

\* known(), lines 33-35
known(o, f) ==
    /\ pc[o] = "idle"
    /\ LET d == index_dir[o]
           err == load_error(d, f)
           c == [calls[o] EXCEPT !.load = @ + 1]
       IN  last' = Call("known", o, d, NoArg, FALSE,
                        IF err = NoErr THEN identifiers(load(d)) ELSE {},
                        Unset, err, err, c)
    /\ UNCHANGED <<storage, created, index_dir, pc, index, arg, calls,
                   added, made, configured>>

\* variant: a failing load is attempted a second time before add gives up
add_load_retrying(o, identifier, f, t) ==
    /\ pc[o] = "idle"
    /\ LET d == index_dir[o]
           err == load_error(d, f)
           c == [calls[o] EXCEPT !.load = IF err = NoErr THEN @ + 1 ELSE @ + 2]
       IN  /\ AddsBegun < MaxAdds
           /\ IF err = NoErr
                 THEN /\ index' = [index EXCEPT ![o] =
                            appended(load(d), CacheEntry(identifier, current_time(t)))]
                      /\ arg' = [arg EXCEPT ![o] = identifier]
                      /\ calls' = [calls EXCEPT ![o] = c]
                      /\ pc' = [pc EXCEPT ![o] = "add_loaded"]
                      /\ UNCHANGED last
                 ELSE /\ last' = Call("add", o, d, identifier, FALSE, {}, Unset,
                                      err, err, c)
                      /\ UNCHANGED <<index, arg, calls, pc>>
    /\ UNCHANGED <<storage, created, index_dir, added, made, configured>>

\* add(identifier), lines 39-41: load, build the entry, append it
add_load(o, identifier, f, t) ==
    /\ pc[o] = "idle"
    /\ LET d == index_dir[o]
           err == load_error(d, f)
           c == [calls[o] EXCEPT !.load = @ + 1]
       IN  /\ AddsBegun < MaxAdds
           /\ IF err = NoErr
                 THEN /\ index' = [index EXCEPT ![o] =
                            appended(load(d), CacheEntry(identifier, current_time(t)))]
                      /\ arg' = [arg EXCEPT ![o] = identifier]
                      /\ calls' = [calls EXCEPT ![o] = c]
                      /\ pc' = [pc EXCEPT ![o] = "add_loaded"]
                      /\ UNCHANGED last
                 ELSE /\ last' = Call("add", o, d, identifier, FALSE, {}, Unset,
                                      err, err, c)
                      /\ UNCHANGED <<index, arg, calls, pc>>
    /\ UNCHANGED <<storage, created, index_dir, added, made, configured>>

\* variant: add appends its entry to whatever is stored at save time
add_save_merging(o, f) ==
    /\ pc[o] = "add_loaded"
    /\ LET d == index_dir[o]
           c == [calls[o] EXCEPT !.save = @ + 1]
       IN  /\ IF f = NoErr
                 THEN /\ storage' = save(d, Append(load(d), index[o][Len(index[o])]))
                      /\ created' = [created EXCEPT ![d] = TRUE]
                      /\ added' = [added EXCEPT ![d] = Append(@, arg[o])]
                      /\ made' = [made EXCEPT ![d] = @ \cup newest(index[o])]
                 ELSE UNCHANGED <<storage, created, added, made>>
           /\ last' = Call("add", o, d, arg[o], FALSE, {}, Unset, f, f, c)
    /\ pc' = [pc EXCEPT ![o] = "idle"]
    /\ index' = [index EXCEPT ![o] = <<>>]
    /\ arg' = [arg EXCEPT ![o] = NoArg]
    /\ calls' = [calls EXCEPT ![o] = NoCalls]
    /\ UNCHANGED <<index_dir, configured>>

\* add(identifier), line 42: self.save(index), then return
add_save(o, f) ==
    /\ pc[o] = "add_loaded"
    /\ LET d == index_dir[o]
           c == [calls[o] EXCEPT !.save = @ + 1]
       IN  /\ IF f = NoErr
                 THEN /\ storage' = save(d, index[o])
                      /\ created' = [created EXCEPT ![d] = TRUE]
                      /\ added' = [added EXCEPT ![d] = Append(@, arg[o])]
                      /\ made' = [made EXCEPT ![d] = @ \cup newest(index[o])]
                 ELSE UNCHANGED <<storage, created, added, made>>
           /\ last' = Call("add", o, d, arg[o], FALSE, {}, Unset, f, f, c)
    /\ pc' = [pc EXCEPT ![o] = "idle"]
    /\ index' = [index EXCEPT ![o] = <<>>]
    /\ arg' = [arg EXCEPT ![o] = NoArg]
    /\ calls' = [calls EXCEPT ![o] = NoCalls]
    /\ UNCHANGED <<index_dir, configured>>

LoadFaults == {NoErr, "corrupt"}
SaveFaults == {NoErr, "unwritable"}
InitFaults == {NoErr, "unavailable"}

\* calls of different objects interleave at their storage accesses
Next ==
    \/ \E o \in Objs, d \in Dirs, f \in InitFaults : IndexBase(o, d, f)
    \/ \E o \in Objs, d \in Dirs, f \in InitFaults : set_index_dir(o, d, f)
    \/ \E o \in Objs : get_index_dir(o)
    \/ \E o \in Objs, x \in Ids, f \in LoadFaults : has(o, x, f)
    \/ \E o \in Objs, f \in LoadFaults : known(o, f)
    \/ \E o \in Objs, x \in Ids, t \in Readings : add_load(o, x, NoErr, t)
    \/ \E o \in Objs, x \in Ids, f \in LoadFaults \ {NoErr} : add_load(o, x, f, 0)
    \/ \E o \in Objs, f \in SaveFaults : add_save(o, f)

Spec == Init /\ [][Next]_vars

\* sequential use: a call runs only while no other call is in progress
Quiet(o) == \A p \in Objs \ {o} : pc[p] \in {"new", "idle"}

SeqNext ==
    \/ \E o \in Objs, d \in Dirs, f \in InitFaults : Quiet(o) /\ IndexBase(o, d, f)
    \/ \E o \in Objs, d \in Dirs, f \in InitFaults : Quiet(o) /\ set_index_dir(o, d, f)
    \/ \E o \in Objs : Quiet(o) /\ get_index_dir(o)
    \/ \E o \in Objs, x \in Ids, f \in LoadFaults : Quiet(o) /\ has(o, x, f)
    \/ \E o \in Objs, f \in LoadFaults : Quiet(o) /\ known(o, f)
    \/ \E o \in Objs, x \in Ids, t \in Readings :
           Quiet(o) /\ add_load(o, x, NoErr, t)
    \/ \E o \in Objs, x \in Ids, f \in LoadFaults \ {NoErr} :
           Quiet(o) /\ add_load(o, x, f, 0)
    \/ \E o \in Objs, f \in SaveFaults : Quiet(o) /\ add_save(o, f)

SeqSpec == Init /\ [][SeqNext]_vars

TypeOK ==
    /\ created \in [Dirs -> BOOLEAN]
    /\ index_dir \in [Objs -> Dirs \cup {Unset}]
    /\ pc \in [Objs -> {"new", "idle", "add_loaded"}]
    /\ arg \in [Objs -> Ids \cup {NoArg}]
    /\ \A d \in Dirs : Len(storage[d]) <= MaxAdds /\ Len(added[d]) <= MaxAdds

\* ------------------------------------------------------------- properties
Range(seq) == {seq[i] : i \in DOMAIN seq}

\* entries of idx whose identifier is x
Count(idx, x) == Cardinality({i \in DOMAIN idx : idx[i].identifier = x})

IdSeq(idx) == [i \in DOMAIN idx |-> idx[i].identifier]

Ok(call, op) == call.op = op /\ call.exc = NoErr

\* the step completes an add of object o without error
AddCompletes(o) ==
    /\ pc[o] = "add_loaded"
    /\ pc'[o] = "idle"
    /\ last'.exc = NoErr

\* C1: in sequential use, has(x) returns false while x has not been added
\* to the location, and the has(x) that follows a completed add(x) on the
\* same location returns true.
C1_HasFalseBeforeTrueAfterAdd ==
    [][ Ok(last', "has") =>
          /\ (last'.arg \notin Range(added'[last'.dir]) => last'.has = FALSE)
          /\ (Ok(last, "add") /\ last.dir = last'.dir /\ last.arg = last'.arg
                => last'.has = TRUE) ]_vars

\* has(x) returned true on a location whose only add so far was add(x)
C1_Witness ==
    /\ Ok(last, "has")
    /\ last.has = TRUE
    /\ added[last.dir] = <<last.arg>>

\* C2: in sequential use from empty storage, known() returns exactly the
\* set of the identifiers passed to the completed adds on the location,
\* however often and in whatever order they were added.
C2_KnownIsSetOfAdded ==
    Ok(last, "known") => last.known = Range(added[last.dir])

\* known() returned a single identifier after it was added twice
C2_Witness ==
    /\ Ok(last, "known")
    /\ Len(added[last.dir]) = 2
    /\ Cardinality(last.known) = 1

\* C3: in sequential use, every completed add lengthens the stored index by
\* exactly one entry and adds one entry for its identifier, also when the
\* identifier is already present.
C3_AddAppendsExactlyOne ==
    [][ \A o \in Objs : AddCompletes(o) =>
          LET d == index_dir[o] IN
          /\ Len(storage'[d]) = Len(storage[d]) + 1
          /\ \A x \in Ids : Count(storage'[d], x) =
                            Count(storage[d], x) + (IF x = arg[o] THEN 1 ELSE 0) ]_vars

\* a location holds two entries for the same identifier
C3_Witness ==
    \E d \in Dirs, x \in Ids :
        /\ Len(storage[d]) = 2
        /\ Count(storage[d], x) = 2
        /\ Ok(last, "add")

\* C4: in sequential use the stored identifiers are the identifiers passed
\* to add, in call order; an add keeps the entries already stored as a
\* prefix and places its own entry last.
C4_InsertionOrderKept ==
    [][ /\ \A d \in Dirs : IdSeq(storage'[d]) = added'[d]
        /\ \A o \in Objs : AddCompletes(o) =>
             LET d == index_dir[o]
                 n == Len(storage[d])
             IN  /\ Len(storage'[d]) = n + 1
                 /\ SubSeq(storage'[d], 1, n) = storage[d]
                 /\ storage'[d][n + 1].identifier = arg[o] ]_vars

\* file2 was added before file1 and is stored before it
C4_Witness ==
    \E d \in Dirs :
        /\ added[d] = <<"file2", "file1">>
        /\ Len(storage[d]) = 2
        /\ storage[d][1].identifier = "file2"
        /\ storage[d][2].identifier = "file1"

\* C5: has and known have no side effects: a step that returns from one of
\* them invokes no save and leaves the stored indexes and every index_dir
\* as they were.
C5_QueriesChangeNothing ==
    [][ last'.op \in {"has", "known"} =>
          /\ last'.nsave = 0
          /\ storage' = storage
          /\ created' = created
          /\ index_dir' = index_dir ]_vars

\* known() answered from a non-empty index with one load and no save
C5_Witness ==
    /\ Ok(last, "known")
    /\ last.known # {}
    /\ last.nload = 1
    /\ last.nsave = 0
    /\ storage[last.dir] # <<>>

\* C6: save is last-writer-wins: an add that completes stores exactly the
\* snapshot it loaded plus its own entry, so entries saved by other adds
\* since that load are dropped.
C6_LastWriterWins ==
    [][ \A o \in Objs : AddCompletes(o) =>
          LET d == index_dir[o] IN
          /\ storage'[d] = index[o]
          /\ storage'[d][Len(storage'[d])].identifier = arg[o]
          /\ (storage[d] # SubSeq(index[o], 1, Len(index[o]) - 1)
                => Len(storage'[d]) < Len(added'[d])) ]_vars

\* the lost update: two adds of different identifiers completed on one
\* location and only the entry of the one that saved last is stored
C6_LostUpdate ==
    \E d \in Dirs :
        /\ InFlight = {}
        /\ Len(added[d]) = 2
        /\ added[d][1] # added[d][2]
        /\ Len(storage[d]) = 1
        /\ storage[d][1].identifier = added[d][2]

LoadErrors == {"unavailable", "corrupt"}

\* C7: an error raised by load, save or _initialize_index reaches the
\* caller unchanged, the failing primitive having been attempted once;
\* when load fails inside add, save is not invoked and the stored index is
\* unchanged.
C7_ErrorsPropagate ==
    [][ last'.raised # NoErr =>
          /\ last'.exc = last'.raised
          /\ (last'.op \in {"has", "known"} =>
                last'.nload = 1 /\ last'.nsave = 0 /\ last'.ninit = 0)
          /\ (last'.op = "add" /\ last'.raised \in LoadErrors =>
                last'.nload = 1 /\ last'.nsave = 0 /\ storage' = storage)
          /\ (last'.op = "add" /\ last'.raised \notin LoadErrors =>
                last'.nload = 1 /\ last'.nsave = 1)
          /\ (last'.op \in {"__init__", "set_index_dir"} =>
                last'.ninit = 1 /\ last'.nload = 0 /\ last'.nsave = 0) ]_vars

\* load failed inside add on a location that holds entries
C7_Witness ==
    /\ last.op = "add"
    /\ last.exc = "corrupt"
    /\ last.nsave = 0
    /\ storage[last.dir] # <<>>

\* C8: get_index_dir returns the argument of the latest set_index_dir (or
\* of the constructor) on the object, whatever was called since; a registry
\* constructed with the default holds None.
C8_GetReturnsLastSet ==
    \A o \in Objs :
        /\ (pc[o] # "new" => index_dir[o] = configured[o])
        /\ (last.op = "get_index_dir" /\ last.obj = o => last.got = configured[o])
        /\ (Ok(last, "__init__") /\ last.obj = o /\ last.dir = None
              => index_dir[o] = None)

\* get_index_dir returned d1 on an object after entries were added
C8_Witness ==
    /\ last.op = "get_index_dir"
    /\ last.got = "d1"
    /\ \E d \in Dirs : storage[d] # <<>>

\* C9: after the constructor or set_index_dir returns on a location to which
\* nothing has been added, load succeeds and returns the empty sequence:
\* has is false for every identifier and known is empty.
C9_FreshLocationLoadsEmpty ==
    /\ (last.op \in {"__init__", "set_index_dir"} /\ last.exc = NoErr
          /\ added[last.dir] = <<>>
          => /\ load_error(last.dir, NoErr) = NoErr
             /\ load(last.dir) = <<>>
             /\ \A x \in Ids : ~any_identifier(load(last.dir), x)
             /\ identifiers(load(last.dir)) = {})
    /\ (Ok(last, "has") /\ added[last.dir] = <<>> => last.has = FALSE)
    /\ (Ok(last, "known") /\ added[last.dir] = <<>> => last.known = {})

\* an object was moved from a location with entries to a fresh one
C9_Witness ==
    /\ Ok(last, "set_index_dir")
    /\ added[last.dir] = <<>>
    /\ \E d \in Dirs \ {last.dir} : storage[d] # <<>>

\* C10: the constructor and set_index_dir never discard entries: a location
\* that exists keeps its stored index across the call.
C10_SetIndexDirKeepsEntries ==
    [][ last'.op \in {"__init__", "set_index_dir"} =>
          \A d \in Dirs : created[d] => created'[d] /\ storage'[d] = storage[d] ]_vars

\* set_index_dir returned on a location that holds two entries
C10_Witness ==
    /\ Ok(last, "set_index_dir")
    /\ Len(storage[last.dir]) = 2

NonDecreasing(idx) ==
    \A i, j \in DOMAIN idx : i < j => idx[i].timestamp <= idx[j].timestamp

\* C11 as stated: in sequential use the stored timestamps never decrease in
\* insertion order.
C11_TimestampsNonDecreasing ==
    \A d \in Dirs : NonDecreasing(storage[d])

\* C11, amended: in sequential use an add whose reading of the clock is not
\* earlier than any timestamp stored at the location keeps the stored
\* timestamps non-decreasing in insertion order.
C11_NonDecreasingWhileClockSteady ==
    [][ \A o \in Objs : AddCompletes(o) =>
          LET d == index_dir[o]
              t == index[o][Len(index[o])].timestamp
          IN  (/\ NonDecreasing(storage[d])
               /\ \A i \in DOMAIN storage[d] : storage[d][i].timestamp <= t)
              => NonDecreasing(storage'[d]) ]_vars

\* two entries stored by adds that read the clock at increasing instants
C11_Witness ==
    \E d \in Dirs :
        /\ Len(storage[d]) = 2
        /\ storage[d][1].timestamp < storage[d][2].timestamp
        /\ Ok(last, "add")

\* C12: no index is kept between public calls: has and known each load once
\* and never save, add loads once and then saves once, and what has and
\* known return is computed from the storage contents at the call.
C12_FreshLoadEveryCall ==
    /\ (Ok(last, "has") =>
          /\ last.nload = 1 /\ last.nsave = 0
          /\ last.has = any_identifier(storage[last.dir], last.arg))
    /\ (Ok(last, "known") =>
          /\ last.nload = 1 /\ last.nsave = 0
          /\ last.known = identifiers(storage[last.dir]))
    /\ (Ok(last, "add") => last.nload = 1 /\ last.nsave = 1)
    /\ \A o \in Objs :
          /\ (pc[o] \in {"new", "idle"} => index[o] = <<>> /\ calls[o] = NoCalls)
          /\ (pc[o] = "add_loaded" => calls[o].load = 1 /\ calls[o].save = 0)

\* has found an identifier in storage while the add of another object on
\* the same location was between its load and its save
C12_Witness ==
    /\ Ok(last, "has")
    /\ last.has = TRUE
    /\ last.nload = 1
    /\ \E p \in Objs \ {last.obj} :
          pc[p] = "add_loaded" /\ index_dir[p] = last.dir

\* C13: the constructor and set_index_dir invoke _initialize_index exactly
\* once, after the assignment, so that it works on the location just
\* configured; no other public operation invokes it.
C13_InitializeAfterAssign ==
    /\ (last.op \in {"__init__", "set_index_dir"} =>
          /\ last.ninit = 1
          /\ last.dir = configured[last.obj]
          /\ (last.exc = NoErr => created[last.dir]))
    /\ (last.op \in {"has", "known", "add", "get_index_dir"} => last.ninit = 0)
    /\ \A o \in Objs : calls[o].init = 0

\* a registry constructed with the default initialised the location None
C13_Witness ==
    /\ Ok(last, "__init__")
    /\ last.dir = None
    /\ last.ninit = 1
    /\ created[None]
    /\ index_dir[last.obj] = None

\* C14: has and known agree: what has(x) returns is what membership of x in
\* known() is on the same stored index, what known() returns holds exactly
\* the identifiers for which has is true there, and a has and a known that
\* follow one another with no write to storage in between give matching
\* answers.
C14_HasAgreesWithKnown ==
    [][ /\ (Ok(last', "has") =>
              (last'.has <=> last'.arg \in identifiers(storage'[last'.dir])))
        /\ (Ok(last', "known") =>
              \A x \in Ids :
                  x \in last'.known <=> any_identifier(storage'[last'.dir], x))
        /\ (Ok(last, "known") /\ Ok(last', "has") /\ last'.dir = last.dir
              => (last'.has <=> last'.arg \in last.known))
        /\ (Ok(last, "has") /\ Ok(last', "known") /\ last'.dir = last.dir
              => (last.has <=> last.arg \in last'.known)) ]_vars

\* known returned file2 alone: has is true for file2 and false for file1
C14_Witness ==
    /\ Ok(last, "known")
    /\ last.known = {"file2"}
    /\ any_identifier(storage[last.dir], "file2")
    /\ ~any_identifier(storage[last.dir], "file1")

\* C15: in sequential use membership only grows: no step removes an
\* identifier from a location, and has(x) returns true whenever x was
\* already stored at the location.
C15_MembershipMonotonic ==
    [][ /\ \A d \in Dirs : identifiers(storage[d]) \subseteq identifiers(storage'[d])
        /\ (Ok(last', "has") /\ last'.arg \in identifiers(storage[last'.dir])
              => last'.has = TRUE) ]_vars

\* has(x) is still true after another identifier was added behind x
C15_Witness ==
    /\ Ok(last, "has")
    /\ last.has = TRUE
    /\ Len(storage[last.dir]) = 2
    /\ storage[last.dir][1].identifier = last.arg
    /\ storage[last.dir][2].identifier # last.arg

\* C16: under every interleaving the stored index holds only entries that
\* some add saved, is never longer than the number of adds that have saved,
\* and right after the save of an add ends with the entry of that add.
C16_OnlySavedEntries ==
    /\ \A d \in Dirs :
          /\ Range(storage[d]) \subseteq made[d]
          /\ Len(storage[d]) <= Len(added[d])
    /\ (Ok(last, "add") =>
          /\ storage[last.dir] # <<>>
          /\ storage[last.dir][Len(storage[last.dir])].identifier = last.arg)

\* two adds saved different entries to a location, one entry is stored and
\* it is the entry of the add that returned last
C16_Witness ==
    /\ Ok(last, "add")
    /\ Len(added[last.dir]) = 2
    /\ Cardinality(made[last.dir]) = 2
    /\ Len(storage[last.dir]) = 1
    /\ storage[last.dir][1].identifier = last.arg

====
